---------------------------- MODULE Spec2Model ----------------------------
(***************************************************************************)
(* Model of the tennis-court reservation crawlers:                         *)
(*   - CircuitBreaker            (all-in-one.ts, class CircuitBreaker)     *)
(*   - TennisCourtCrawler, main  (all-in-one.ts)                           *)
(*   - NowonCrawler, main        (nowon-crawler.ts)                        *)
(* Both TypeScript files are concatenated in src/unnamed/part_000.         *)
(*                                                                         *)
(* Specifications:                                                         *)
(*   SpecCB    the CircuitBreaker class driven by an arbitrary caller      *)
(*             under a non-decreasing millisecond clock.                   *)
(*   SpecTab   NowonCrawler.crawlAvailableTimes as a function of the two   *)
(*             upstream response bodies.                                   *)
(*   SpecCrawl one run of main() of NowonCrawler or of TennisCourtCrawler, *)
(*             request by request.                                         *)
(*                                                                         *)
(* Text is modelled as a sequence of characters (one-character strings);   *)
(* the Korean literals of the source are written in ASCII:                 *)
(*   "BOOKABLE" for the status '예약가능', "NOT_BOOKABLE" for '예약불가',  *)
(*   and the single character "court" for the label suffix '코트'.         *)
(***************************************************************************)
EXTENDS Integers, Sequences, FiniteSets, TLC

(***************************************************************************)
(* Bounds of the model.                                                    *)
(***************************************************************************)
\* largest failure_threshold handed to the CircuitBreaker constructor
MaxThreshold == 2
\* largest recovery_timeout (seconds) handed to the constructor
MaxTimeout == 2
\* recordFailure is not called once failure_count has reached this value
MaxFailures == 4
\* the clock advances in steps of TickMs milliseconds ...
TickMs == 500
\* ... for at most MaxTicks steps
MaxTicks == 8
\* isAvailable grants counted while HALF_OPEN (history counter cap)
MaxProbes == 2
\* largest hourUnit of a schedule, in half hours
MaxHourUnit == 3
\* largest slot count (line) of a schedule
MaxLine == 2
\* longest reserved list
MaxReserved == 2
\* most days of a crawled month
MaxDays == 2
\* most checkboxes in the markup of one court block
MaxBoxes == 2
\* most court blocks in one response
MaxBlocks == 2

VARIABLES
  \* ---- CircuitBreaker fields (part_000:408-412)
  failure_threshold,   \* private failure_threshold: number
  recovery_timeout,    \* private recovery_timeout: number (seconds)
  failure_count,       \* private failure_count: number = 0
  last_failure_time,   \* number | null; <<>> is null, <<t>> is the number t
  state,               \* 'CLOSED' | 'OPEN' | 'HALF_OPEN'
  \* ---- environment of the breaker
  now,                 \* Date.now(), milliseconds
  \* ---- history of the calls made on the breaker
  lastOp,              \* the last method called ("new" after construction)
  lastRet,             \* what it returned: "true", "false" or "void"
  prevState,           \* the breaker's state when that method was called
  streak,              \* recordFailure calls since construction / last recordSuccess
  probes,              \* isAvailable calls answered true in HALF_OPEN since the
                       \* last recorded outcome
  \* ---- one call of NowonCrawler.crawlAvailableTimes on given responses
  tabIn,               \* [pickDate, cate2, result, reserved]: the arguments and
                       \* the bodies of the two upstream responses
  tabRows,             \* the CrawlRow[] returned
  tabPc,               \* "call" before the call, "returned" after it
  \* ---- one call of a method of TennisCourtCrawler, or of the date loop of
  \*      a crawlMonth, on given arguments
  callIn,              \* [method, ...]: the method and its arguments
  callOut,             \* what the call returned
  callPc,              \* "call" before the call, "returned" after it
  \* ---- one run of main() of a crawler
  crawler,             \* "nowon" (NowonCrawler) or "dobong" (TennisCourtCrawler)
  tzOffset,            \* Date.getTimezoneOffset() of the host, minutes
  pc,                  \* where main is: "login", "test", "month", then "done",
                       \* "exit" (returned after a failed login) or "crashed"
  loginSuccess,        \* const loginSuccess: "pending", "true", "false"
  loggedIn,            \* TennisCourtCrawler.loggedIn
  lastDay,             \* the number of days of the month crawled
  day,                 \* crawlMonth: the day of currentDate / i + 1
  fac,                 \* NowonCrawler.crawlMonth: index in facilities
  allResults,          \* NowonCrawler.crawlMonth: allResults
  results,             \* TennisCourtCrawler.crawlMonth: results
  \* ---- history of the run
  log                  \* the requests issued and the sleeps, in order

cbFields == <<failure_threshold, recovery_timeout, failure_count,
              last_failure_time, state>>
cbHist   == <<lastOp, lastRet, prevState, streak, probes>>
cbVars   == <<cbFields, now, cbHist>>

tabVars  == <<tabIn, tabRows, tabPc>>

callVars == <<callIn, callOut, callPc>>

crawlVars == <<crawler, tzOffset, pc, loginSuccess, loggedIn, lastDay, day, fac,
               allResults, results, log>>

vars == <<cbVars, tabVars, callVars, crawlVars>>

Min(a, b) == IF a < b THEN a ELSE b

(***************************************************************************)
(* CircuitBreaker                                                          *)
(***************************************************************************)

\* constructor(failure_threshold, recovery_timeout): the field initialisers
\* and the two assignments.
CircuitBreaker(threshold, timeout) ==
  /\ failure_threshold = threshold
  /\ recovery_timeout = timeout
  /\ failure_count = 0
  /\ last_failure_time = <<>>
  /\ state = "CLOSED"

\* JavaScript truthiness of `this.last_failure_time` (number | null):
\* null and 0 are falsy.
Truthy(t) == t # <<>> /\ t[1] # 0

\* Mutant: the comparison of line 422 written with >= instead of >.
RecoveryElapsed_orEqual ==
  /\ Truthy(last_failure_time)
  /\ now - last_failure_time[1] >= recovery_timeout * 1000

\* The condition of the inner `if` of isAvailable (line 422).
RecoveryElapsed ==
  /\ Truthy(last_failure_time)
  /\ now - last_failure_time[1] > recovery_timeout * 1000

\* The value isAvailable() returns when called in the current state.
isAvailableReturn ==
  IF state = "CLOSED" THEN "true"
  ELSE IF state = "OPEN"
       THEN (IF RecoveryElapsed THEN "true" ELSE "false")
       ELSE "true"

\* The effect of isAvailable() on the fields.
isAvailable ==
  /\ state' = IF state = "OPEN" /\ RecoveryElapsed THEN "HALF_OPEN" ELSE state
  /\ UNCHANGED <<failure_threshold, recovery_timeout, failure_count,
                 last_failure_time>>

\* Mutant: recordSuccess without the reset of failure_count (line 432).
recordSuccess_keepCount ==
  /\ state' = "CLOSED"
  /\ UNCHANGED <<failure_threshold, recovery_timeout, failure_count,
                 last_failure_time>>

\* recordSuccess()
recordSuccess ==
  /\ failure_count' = 0
  /\ state' = "CLOSED"
  /\ UNCHANGED <<failure_threshold, recovery_timeout, last_failure_time>>

\* Mutant: the threshold test of line 439 written with === instead of >=.
recordFailure_exactThreshold ==
  /\ failure_count' = failure_count + 1
  /\ last_failure_time' = <<now>>
  /\ state' = IF failure_count + 1 = failure_threshold THEN "OPEN" ELSE state
  /\ UNCHANGED <<failure_threshold, recovery_timeout>>

\* Mutant: the threshold test of line 439 written with > instead of >=.
recordFailure_lateThreshold ==
  /\ failure_count' = failure_count + 1
  /\ last_failure_time' = <<now>>
  /\ state' = IF failure_count + 1 > failure_threshold THEN "OPEN" ELSE state
  /\ UNCHANGED <<failure_threshold, recovery_timeout>>

\* recordFailure()
recordFailure ==
  /\ failure_count' = failure_count + 1
  /\ last_failure_time' = <<now>>
  /\ state' = IF failure_count + 1 >= failure_threshold THEN "OPEN" ELSE state
  /\ UNCHANGED <<failure_threshold, recovery_timeout>>

(***************************************************************************)
(* Text helpers: the JavaScript string operations the crawlers use.        *)
(***************************************************************************)
Digits == <<"0", "1", "2", "3", "4", "5", "6", "7", "8", "9">>

\* \d of the regular expressions
IsDigit(c) == \E d \in 1..10 : Digits[d] = c

DigitValue(c) == (CHOOSE d \in 1..10 : Digits[d] = c) - 1

\* Number.prototype.toString() of a non-negative integer
RECURSIVE NumberToString(_)
NumberToString(n) ==
  IF n < 10 THEN <<Digits[n + 1]>>
  ELSE NumberToString(n \div 10) \o <<Digits[(n % 10) + 1]>>

\* String.prototype.padStart(len, c)
PadStart(s, len, c) ==
  IF Len(s) >= len THEN s ELSE [i \in 1..(len - Len(s)) |-> c] \o s

\* /^\d+$/.test(s)
AllDigits(s) == Len(s) > 0 /\ \A i \in 1..Len(s) : IsDigit(s[i])

\* The value of a string of decimal digits.
RECURSIVE DigitsToNumber(_)
DigitsToNumber(s) ==
  IF Len(s) = 0 THEN 0
  ELSE 10 * DigitsToNumber(SubSeq(s, 1, Len(s) - 1)) + DigitValue(s[Len(s)])

\* parseInt(s) of a string without sign or leading blanks: the value of its
\* longest prefix of digits as <<n>>, and <<>> (NaN) when there is none.
ParseInt(s) ==
  LET n == CHOOSE k \in 0..Len(s) :
             /\ \A i \in 1..k : IsDigit(s[i])
             /\ (k = Len(s) \/ ~IsDigit(s[k + 1]))
  IN  IF n = 0 THEN <<>> ELSE <<DigitsToNumber(SubSeq(s, 1, n))>>

\* `${v}` of a value that is a number, a string or undefined
TemplateString(v) ==
  CASE v.type = "number"    -> NumberToString(v.value)
    [] v.type = "string"    -> v.value
    [] v.type = "undefined" -> <<"u", "n", "d", "e", "f", "i", "n", "e", "d">>

\* s.split(sep) for a one-character separator: the parts before and after
\* the first occurrence (the source destructures the first two parts of a
\* string with exactly one '@').
Split(s, sep) ==
  LET at == CHOOSE k \in 1..Len(s) :
              s[k] = sep /\ \A i \in 1..(k - 1) : s[i] # sep
  IN  <<SubSeq(s, 1, at - 1), SubSeq(s, at + 1, Len(s))>>

\* Math.floor of a number of hours held as a count of half hours
Floor(h) == h \div 2

(***************************************************************************)
(* NowonCrawler.crawlAvailableTimes (tabular strategy).                    *)
(*                                                                         *)
(* result   : the body of getTimeList, [useBeginHour, hourUnit, line];     *)
(*            the two numbers are held as counts of half hours (8 is 16,   *)
(*            1.5 is 3), for which the floating point sums of the slot     *)
(*            loop are exact; line is a string.                            *)
(* reserved : the body of checkReserve: [list |-> <<item, ...>>], or the   *)
(*            empty object [none |-> TRUE] that checkReserve returns when  *)
(*            its request fails. An item is [cseq, useTimeBegin]; cseq is  *)
(*            a number, a string or undefined, useTimeBegin a string, with *)
(*            <<>> for both '' and undefined (both falsy).                 *)
(***************************************************************************)

\* Lines 148-152: the begin time of a reserved item, as put in the key.
\* Mutant: the bare-integer form is suffixed but not zero-padded.
beginTime_unpadded(r) ==
  LET t == IF r.useTimeBegin = <<>> THEN <<"0", "0", ":", "0", "0">>
           ELSE r.useTimeBegin
  IN  IF AllDigits(t)
      THEN NumberToString(ParseInt(t)[1]) \o <<":", "0", "0">>
      ELSE t

beginTime(r) ==
  LET t == IF r.useTimeBegin = <<>> THEN <<"0", "0", ":", "0", "0">>
           ELSE r.useTimeBegin
  IN  IF AllDigits(t)
      THEN PadStart(NumberToString(ParseInt(t)[1]), 2, "0") \o <<":", "0", "0">>
      ELSE t

\* Lines 144-156: reservedSet
reservedSet(reserved) ==
  LET reservedList == IF "list" \in DOMAIN reserved THEN reserved.list ELSE <<>>
  IN  { TemplateString(reservedList[n].cseq) \o <<",">> \o beginTime(reservedList[n]) :
          n \in DOMAIN reservedList }

\* Lines 161-170: courts, each `${i + 1}court@${base + i + 1}` for i = 0..length-1
CourtList(length, base) ==
  [k \in 1..length |->
     NumberToString(k) \o <<"court", "@">> \o NumberToString(base + k)]

courts(cate2) ==
  IF cate2 = 17 THEN CourtList(4, 29)
  ELSE IF cate2 = 15 THEN CourtList(3, 17)
  ELSE CourtList(9, 20)

prefix(cate2) ==
  IF cate2 = 17 THEN <<"2">> ELSE IF cate2 = 15 THEN <<>> ELSE <<"1">>

\* Line 175: lineCount; a NaN makes the loop condition i < lineCount false.
lineCount(result) ==
  LET n == ParseInt(result.line) IN IF n = <<>> THEN 0 ELSE n[1]

\* Lines 179-180: the text of an hour
HourText(h) == PadStart(NumberToString(Floor(h)), 2, "0") \o <<":", "0", "0">>

\* Lines 185/193: the status of a row whose key is `key`
\* Mutant: the two status texts swapped.
status_swapped(set, key) ==
  IF key \in set THEN "BOOKABLE" ELSE "NOT_BOOKABLE"

status(set, key) ==
  IF key \in set THEN "NOT_BOOKABLE" ELSE "BOOKABLE"

\* Lines 172-200: the rows, slot by slot and court by court within a slot.
crawlAvailableTimes(pickDate, cate2, result, reserved) ==
  LET set == reservedSet(reserved)
      cs  == courts(cate2)
      n   == Len(cs)
  IN  [k \in 1..(lineCount(result) * n) |->
         LET i         == (k - 1) \div n
             c         == cs[((k - 1) % n) + 1]
             startTime == result.useBeginHour + i * result.hourUnit
             endTime   == startTime + result.hourUnit
             startTxt  == HourText(startTime)
             courtName == Split(c, "@")[1]
             courtSeq  == Split(c, "@")[2]
             key       == courtSeq \o <<",">> \o startTxt
         IN  [date      |-> pickDate,
              court     |-> IF prefix(cate2) # <<>>
                            THEN prefix(cate2) \o courtName ELSE courtName,
              startTime |-> startTxt,
              endTime   |-> HourText(endTime),
              status    |-> status(set, key)]]

(***************************************************************************)
(* Calendar dates, as the JavaScript Date object computes them.            *)
(***************************************************************************)
IsLeapYear(y) == (y % 4 = 0 /\ y % 100 # 0) \/ y % 400 = 0

DaysInMonth(y, m) ==
  IF m = 2 THEN (IF IsLeapYear(y) THEN 29 ELSE 28)
  ELSE IF m \in {4, 6, 9, 11} THEN 30 ELSE 31

\* The calendar day before [year, month, day].
PreviousDay(d) ==
  IF d.day > 1 THEN [d EXCEPT !.day = d.day - 1]
  ELSE IF d.month > 1
       THEN [year |-> d.year, month |-> d.month - 1,
             day |-> DaysInMonth(d.year, d.month - 1)]
       ELSE [year |-> d.year - 1, month |-> 12, day |-> 31]

\* The UTC calendar day of the instant that is midnight of local day d on a
\* host whose Date.getTimezoneOffset() is offset minutes (UTC - local, more
\* than -24 h and less than 24 h): the day before d when the host is east
\* of UTC, d itself otherwise.
UTCDayOfLocalMidnight(d, offset) == IF offset < 0 THEN PreviousDay(d) ELSE d

\* date.toISOString().split('T')[0] for a date at local midnight of day d
\* (years of four digits)
toISODate(d, offset) ==
  LET u == UTCDayOfLocalMidnight(d, offset)
  IN  PadStart(NumberToString(u.year), 4, "0") \o <<"-">>
      \o PadStart(NumberToString(u.month), 2, "0") \o <<"-">>
      \o PadStart(NumberToString(u.day), 2, "0")

(***************************************************************************)
(* NowonCrawler: login, checkReserve, the facilities of crawlMonth.        *)
(*                                                                         *)
(* The outcome of a request is [throws |-> TRUE] when the transport raises *)
(* and [throws |-> FALSE, data |-> body, ...] when it returns.             *)
(***************************************************************************)

\* Lines 80-94 of login: the failure markers of the response body. A string
\* body is [type |-> "string", includesLoginFail, includesFail]; an object
\* body is [type |-> "object", success, result, error, messageIncludesFail]
\* with success and result one of "true", "false", "undefined".
LoginFailureMarked(data) ==
  IF data.type = "string" THEN data.includesLoginFail \/ data.includesFail
  ELSE IF data.type = "object"
       THEN \/ data.success = "false"
            \/ data.result = "false"
            \/ data.error
            \/ data.messageIncludesFail
       ELSE FALSE

\* NowonCrawler.login: what it returns for the outcome of its POST.
NowonLoginReturn(outcome) ==
  IF outcome.throws THEN FALSE
  ELSE IF LoginFailureMarked(outcome.data) THEN FALSE
  ELSE IF outcome.status = 200 \/ outcome.status = 302 THEN TRUE
  ELSE FALSE

\* NowonCrawler.checkReserve: what it returns for the outcome of its POST.
checkReserve(outcome) ==
  IF outcome.throws THEN [none |-> TRUE] ELSE outcome.data

\* crawlMonth, lines 215-219 (display names in Latin letters)
facilities ==
  <<[cate2Val |-> 15, name |-> "bul", displayName |-> "Buramsan"],
    [cate2Val |-> 16, name |-> "ma",  displayName |-> "Madeul"],
    [cate2Val |-> 17, name |-> "cho", displayName |-> "Choansan"]>>

(***************************************************************************)
(* TennisCourtCrawler: parseTimeSlots, parseAvailabilityData,              *)
(* checkAvailability, getMonthDates.                                       *)
(***************************************************************************)

\* value.match(/(\d{1,2}):(\d{2})/): <<>> for null, otherwise <<[hour,
\* minute]>> with the two groups of the leftmost match; at one position the
\* greedy \d{1,2} takes two digits when the rest then matches.
TwoDigitHourAt(v, i) ==
  /\ i + 4 <= Len(v)
  /\ IsDigit(v[i]) /\ IsDigit(v[i + 1]) /\ v[i + 2] = ":"
  /\ IsDigit(v[i + 3]) /\ IsDigit(v[i + 4])

OneDigitHourAt(v, i) ==
  /\ i + 3 <= Len(v)
  /\ IsDigit(v[i]) /\ v[i + 1] = ":"
  /\ IsDigit(v[i + 2]) /\ IsDigit(v[i + 3])

timeMatch(v) ==
  LET at == {i \in 1..Len(v) : TwoDigitHourAt(v, i) \/ OneDigitHourAt(v, i)}
  IN  IF at = {} THEN <<>>
      ELSE LET i == CHOOSE j \in at : \A k \in at : j <= k
           IN  IF TwoDigitHourAt(v, i)
               THEN <<[hour |-> SubSeq(v, i, i + 1), minute |-> SubSeq(v, i + 3, i + 4)]>>
               ELSE <<[hour |-> SubSeq(v, i, i), minute |-> SubSeq(v, i + 2, i + 3)]>>

\* Lines 596-613: the slots one checkbox contributes (none or one). A
\* checkbox is [value, disabled]: its value attribute (<<>> when absent) and
\* whether it carries the disabled attribute.
SlotsOfCheckbox(checkbox) ==
  LET m == timeMatch(checkbox.value)
  IN  IF m = <<>> THEN <<>>
      ELSE LET parsed == ParseInt(m[1].hour)[1]
               minute == m[1].minute
               hour   == IF parsed >= 7 THEN parsed - 1 ELSE parsed
               available == ~checkbox.disabled
           IN  IF parsed = 6 /\ minute = <<"0", "0">> THEN <<>>
               ELSE <<[time      |-> PadStart(NumberToString(hour), 2, "0")
                                       \o <<":">> \o minute,
                       available |-> available,
                       price     |-> "",
                       status    |-> IF available THEN "available" ELSE "disabled"]>>

\* parseTimeSlots: htmlContent is held as the list of its
\* input[type="checkbox"] elements, in document order.
RECURSIVE parseTimeSlots(_)
parseTimeSlots(htmlContent) ==
  IF htmlContent = <<>> THEN <<>>
  ELSE SlotsOfCheckbox(Head(htmlContent)) \o parseTimeSlots(Tail(htmlContent))

RECURSIVE CountAvailable(_)
CountAvailable(slots) ==
  IF slots = <<>> THEN 0
  ELSE (IF Head(slots).available THEN 1 ELSE 0) + CountAvailable(Tail(slots))

RECURSIVE SumAvailable(_)
SumAvailable(cs) ==
  IF cs = <<>> THEN 0 ELSE Head(cs).available_slots + SumAvailable(Tail(cs))

\* Lines 563-581: the CourtData of block number i (from 0). A block is
\* [isNull |-> TRUE] for null, otherwise [play_name, play_code, place_code,
\* event_code, htmlx]: texts, <<>> when missing or empty, and the checkbox
\* list of htmlx, <<>> when htmlx is missing or empty. The default court
\* name `court${i + 1}` stands for the Korean literal.
CourtDataOf(courtInfo, i) ==
  LET time_slots == IF courtInfo.htmlx # <<>>
                    THEN parseTimeSlots(courtInfo.htmlx) ELSE <<>>
  IN  [court_name       |-> IF courtInfo.play_name # <<>> THEN courtInfo.play_name
                            ELSE <<"court">> \o NumberToString(i + 1),
       court_code       |-> courtInfo.play_code,
       place_code       |-> courtInfo.place_code,
       event_code       |-> courtInfo.event_code,
       time_slots       |-> time_slots,
       available_slots  |-> CountAvailable(time_slots),
       total_slots      |-> Len(time_slots),
       has_availability |-> CountAvailable(time_slots) > 0]

\* Lines 553-560: playData. data.play_name is [form |-> "array", blocks],
\* [form |-> "string", parses, blocks] (a JSON text, which JSON.parse may
\* reject) or [form |-> "other"] (a truthy value that is neither); a data
\* without play_name is [none |-> TRUE].
playDataOf(data) ==
  IF "play_name" \notin DOMAIN data THEN [isArray |-> TRUE, blocks |-> <<>>]
  ELSE IF data.play_name.form = "array"
       THEN [isArray |-> TRUE, blocks |-> data.play_name.blocks]
  ELSE IF data.play_name.form = "string"
       THEN [isArray |-> TRUE,
             blocks  |-> IF data.play_name.parses THEN data.play_name.blocks ELSE <<>>]
  ELSE [isArray |-> FALSE]

\* `${dateStr.slice(0, 4)}Y ${dateStr.slice(4, 6)}M ${dateStr.slice(6, 8)}D`
\* with the letters Y, M, D for the three Korean unit characters
formatted_date(dateStr) ==
  SubSeq(dateStr, 1, 4) \o <<"Y", " ">> \o SubSeq(dateStr, 5, 6) \o <<"M", " ">>
  \o SubSeq(dateStr, 7, 8) \o <<"D">>

\* parseAvailabilityData: [throws |-> TRUE] when it raises a TypeError (data
\* is null, playData is no array, a block is null), otherwise
\* [throws |-> FALSE, result |-> the AvailabilityResult].
parseAvailabilityData(dateStr, data) ==
  IF "isNull" \in DOMAIN data THEN [throws |-> TRUE]
  ELSE LET playData == playDataOf(data)
       IN  IF ~playData.isArray THEN [throws |-> TRUE]
           ELSE IF \E i \in DOMAIN playData.blocks : "isNull" \in DOMAIN playData.blocks[i]
           THEN [throws |-> TRUE]
           ELSE LET cs == [i \in DOMAIN playData.blocks |->
                             CourtDataOf(playData.blocks[i], i - 1)]
                IN  [throws |-> FALSE,
                     result |-> [date                  |-> dateStr,
                                 formatted_date        |-> formatted_date(dateStr),
                                 status                |-> "success",
                                 courts                |-> cs,
                                 total_available_slots |-> SumAvailable(cs),
                                 has_availability      |-> SumAvailable(cs) > 0]]

\* Lines 535-542: the value of the catch block of checkAvailability
ErrorResult(dateStr, message) ==
  [date |-> dateStr, status |-> "error", error |-> message, courts |-> <<>>]

\* checkAvailability, for the outcomes of its GET and of its POST. The body
\* of the POST is [valid |-> FALSE] for a text that JSON.parse rejects and
\* [valid |-> TRUE, value |-> data] otherwise.
checkAvailability(dateStr, get, post) ==
  IF get.throws THEN ErrorResult(dateStr, "index request failed")
  ELSE IF post.throws THEN ErrorResult(dateStr, "ajax request failed")
  ELSE IF ~post.data.valid THEN ErrorResult(dateStr, "JSON.parse failed")
  ELSE LET parsed == parseAvailabilityData(dateStr, post.data.value)
       IN  IF parsed.throws THEN ErrorResult(dateStr, "TypeError")
           ELSE parsed.result

\* getMonthDates, given the day count new Date(year, month, 0).getDate()
getMonthDates(year, month, lastDayOfMonth) ==
  [d \in 1..lastDayOfMonth |->
     NumberToString(year) \o PadStart(NumberToString(month), 2, "0")
     \o PadStart(NumberToString(d), 2, "0")]

\* No run of main is being followed.
CrawlIdle ==
  /\ crawler = "none"
  /\ tzOffset = 0
  /\ pc = "idle"
  /\ loginSuccess = "pending"
  /\ loggedIn = FALSE
  /\ lastDay = 0
  /\ day = 0
  /\ fac = 0
  /\ allResults = [bul |-> <<>>, ma |-> <<>>, cho |-> <<>>]
  /\ results = <<>>
  /\ log = <<>>

\* No call of crawlAvailableTimes is being followed.
TabIdle ==
  /\ tabIn = <<>>
  /\ tabRows = <<>>
  /\ tabPc = "idle"

\* No single method call is being followed.
CallIdle ==
  /\ callIn = <<>>
  /\ callOut = <<>>
  /\ callPc = "idle"

(***************************************************************************)
(* SpecCB: the breaker under an arbitrary caller.                          *)
(***************************************************************************)
InitCB ==
  /\ \E threshold \in 1..MaxThreshold, timeout \in 1..MaxTimeout :
       CircuitBreaker(threshold, timeout)
  /\ now = TickMs
  /\ lastOp = "new"
  /\ lastRet = "void"
  /\ prevState = "CLOSED"
  /\ streak = 0
  /\ probes = 0
  /\ TabIdle
  /\ CallIdle
  /\ CrawlIdle

\* A call of isAvailable().
CallIsAvailable ==
  /\ isAvailable
  /\ lastOp' = "isAvailable"
  /\ prevState' = state
  /\ lastRet' = isAvailableReturn
  /\ probes' = IF state' = "HALF_OPEN" /\ isAvailableReturn = "true"
               THEN Min(probes + 1, MaxProbes) ELSE probes
  /\ UNCHANGED <<now, streak, tabVars, callVars, crawlVars>>

\* A call of recordSuccess().
CallRecordSuccess ==
  /\ recordSuccess
  /\ lastOp' = "recordSuccess"
  /\ prevState' = state
  /\ lastRet' = "void"
  /\ streak' = 0
  /\ probes' = 0
  /\ UNCHANGED <<now, tabVars, callVars, crawlVars>>

\* A call of recordFailure().
CallRecordFailure ==
  /\ failure_count < MaxFailures
  /\ recordFailure
  /\ lastOp' = "recordFailure"
  /\ prevState' = state
  /\ lastRet' = "void"
  /\ streak' = streak + 1
  /\ probes' = 0
  /\ UNCHANGED <<now, tabVars, callVars, crawlVars>>

\* Time passes between two calls.
Tick ==
  /\ now < TickMs * (MaxTicks + 1)
  /\ now' = now + TickMs
  /\ lastOp' = "tick"
  /\ prevState' = state
  /\ lastRet' = "void"
  /\ UNCHANGED <<cbFields, streak, probes, tabVars, callVars, crawlVars>>

NextCB ==
  \/ CallIsAvailable
  \/ CallRecordSuccess
  \/ CallRecordFailure
  \/ Tick

SpecCB == InitCB /\ [][NextCB]_vars

(***************************************************************************)
(* SpecTab: one call of crawlAvailableTimes, for every facility and every  *)
(* pair of response bodies of the sets below.                              *)
(***************************************************************************)
\* No breaker is being followed.
CBIdle ==
  /\ CircuitBreaker(0, 0)
  /\ now = 0
  /\ lastOp = "none"
  /\ lastRet = "void"
  /\ prevState = "CLOSED"
  /\ streak = 0
  /\ probes = 0

Cate2s == {15, 16, 17}

\* getTimeList bodies: first slots at 0:00 and 8:30, hour units from 0.5 h,
\* line a count or a text that parseInt turns into NaN.
TimeLists ==
  [useBeginHour : {0, 17},
   hourUnit     : 1..MaxHourUnit,
   line         : {NumberToString(n) : n \in 0..MaxLine} \cup {<<"x">>}]

\* Reserved items: court 18 with a begin time that is missing, a bare
\* integer (8, 9) or HH:MM; courts "21" (a text) and 30 and an item without
\* cseq, each with the bare integer 8.
ReservedItems ==
  [cseq         : {[type |-> "number", value |-> 18]},
   useTimeBegin : {<<>>, <<"8">>, <<"9">>, <<"0", "8", ":", "0", "0">>}]
  \cup [cseq         : {[type |-> "string", value |-> <<"2", "1">>],
                        [type |-> "number", value |-> 30],
                        [type |-> "undefined"]},
        useTimeBegin : {<<"8">>}]

RECURSIVE ListsUpTo(_, _)
ListsUpTo(S, n) ==
  IF n = 0 THEN {<<>>}
  ELSE LET shorter == ListsUpTo(S, n - 1)
       IN  shorter \cup {Append(l, x) : l \in shorter, x \in S}

\* checkReserve bodies, and the {} it returns for a failed request
ReservedBodies ==
  {[list |-> l] : l \in ListsUpTo(ReservedItems, MaxReserved)}
  \cup {[none |-> TRUE]}

InitTab ==
  /\ CBIdle
  /\ tabIn \in [pickDate : {"2025-10-15"}, cate2 : Cate2s,
                 result : TimeLists, reserved : ReservedBodies]
  /\ tabRows = <<>>
  /\ tabPc = "call"
  /\ CallIdle
  /\ CrawlIdle

\* const rows = await crawler.crawlAvailableTimes(pickDate, cate2)
CallCrawlAvailableTimes ==
  /\ tabPc = "call"
  /\ tabRows' = crawlAvailableTimes(tabIn.pickDate, tabIn.cate2,
                                    tabIn.result, tabIn.reserved)
  /\ tabPc' = "returned"
  /\ UNCHANGED <<tabIn, cbVars, callVars, crawlVars>>

NextTab == CallCrawlAvailableTimes

SpecTab == InitTab /\ [][NextTab]_vars

(***************************************************************************)
(* SpecCrawl: one run of main() of either crawler: login, the single test  *)
(* query, crawlMonth(2025, 10, 0.5), for every outcome of every request.   *)
(* The month is cut to its first lastDay days, lastDay <= MaxDays.         *)
(***************************************************************************)
\* main passes crawlMonth(2025, 10, 0.5); sleep is called with delay * 1000
JobYear == 2025
JobMonth == 10
DelayMs == 500
\* the day of the test query of main ("2025-10-15", "20251015")
TestDay == 15
\* new CircuitBreaker(5, 600) of the TennisCourtCrawler constructor
BreakerThreshold == 5
BreakerTimeout == 600

\* Date.getTimezoneOffset() of the hosts considered: UTC+9 and UTC
TimezoneOffsets == {0 - 540, 0}

Throws == [throws |-> TRUE]
Returns(body) == [throws |-> FALSE, data |-> body]

\* Outcomes of NowonCrawler's login POST
NowonLoginOutcomes ==
  {Throws}
  \cup {[throws |-> FALSE, status |-> st,
         data |-> [type |-> "string", includesLoginFail |-> FALSE, includesFail |-> FALSE]] :
          st \in {200, 302, 204}}
  \cup {[throws |-> FALSE, status |-> 200,
         data |-> [type |-> "string", includesLoginFail |-> a, includesFail |-> ~a]] :
          a \in BOOLEAN}
  \cup {[throws |-> FALSE, status |-> 200,
         data |-> [type |-> "object", success |-> s, result |-> r, error |-> e,
                   messageIncludesFail |-> m]] :
          s \in {"true", "false", "undefined"}, r \in {"true", "undefined", "false"},
          e \in BOOLEAN, m \in BOOLEAN}
  \cup {[throws |-> FALSE, status |-> 200, data |-> [type |-> "other"]]}

\* Outcomes of getTimeList and checkReserve during a run
CrawlTimeListOutcomes ==
  {Throws, Returns([useBeginHour |-> 16, hourUnit |-> 2, line |-> <<"1">>])}

CrawlReserveOutcomes ==
  {Throws,
   Returns([list |-> <<[cseq |-> [type |-> "number", value |-> 18], useTimeBegin |-> <<"8">>],
                       [cseq |-> [type |-> "number", value |-> 21], useTimeBegin |-> <<"8">>],
                       [cseq |-> [type |-> "number", value |-> 30], useTimeBegin |-> <<"8">>]>>])}

\* Outcomes of the GET and the POST of checkAvailability during a run
CourtBlock ==
  [play_name |-> <<"A">>, play_code |-> <<"1">>, place_code |-> <<>>, event_code |-> <<>>,
   htmlx |-> <<[value |-> <<"0", "6", ":", "0", "0">>, disabled |-> FALSE],
               [value |-> <<"0", "9", ":", "0", "0">>, disabled |-> FALSE],
               [value |-> <<"1", "4", ":", "0", "0">>, disabled |-> TRUE]>>]

CrawlGetOutcomes == {Throws, Returns(<<>>)}

CrawlPostOutcomes ==
  {Throws,
   Returns([valid |-> FALSE]),
   Returns([valid |-> TRUE,
            value |-> [play_name |-> [form |-> "array", blocks |-> <<CourtBlock>>]]]),
   Returns([valid |-> TRUE,
            value |-> [play_name |-> [form |-> "array",
                                      blocks |-> <<CourtBlock, [isNull |-> TRUE]>>]]])}

\* An entry of log
Event(op, phase, d, cate2, resp) ==
  [op |-> op, phase |-> phase, day |-> d, cate2 |-> cate2, resp |-> resp]

Slept(phase, d, cate2) == Event("sleep", phase, d, cate2, [throws |-> FALSE, ms |-> DelayMs])

\* Lines 344-348 / 652-656 of main: where main goes on after login returned
\* Mutant: main without the `if (!loginSuccess) return`.
mainAfterLogin_unchecked(success) == "test"

mainAfterLogin(success) == IF success THEN "test" ELSE "exit"

InitCrawl ==
  /\ crawler \in {"nowon", "dobong"}
  /\ IF crawler = "dobong"
     THEN /\ CircuitBreaker(BreakerThreshold, BreakerTimeout)
          /\ now = 0 /\ lastOp = "new" /\ lastRet = "void" /\ prevState = "CLOSED"
          /\ streak = 0 /\ probes = 0
          /\ tzOffset = 0
     ELSE /\ CBIdle
          /\ tzOffset \in TimezoneOffsets
  /\ TabIdle
  /\ CallIdle
  /\ pc = "login"
  /\ loginSuccess = "pending"
  /\ loggedIn = FALSE
  /\ lastDay \in 1..MaxDays
  /\ day = 0
  /\ fac = 0
  /\ allResults = [bul |-> <<>>, ma |-> <<>>, cho |-> <<>>]
  /\ results = <<>>
  /\ log = <<>>

(***************************************************************************)
(* NowonCrawler: main                                                      *)
(***************************************************************************)
\* const loginSuccess = await crawler.login(username, password); if (!...) return
NowonLogin ==
  /\ crawler = "nowon" /\ pc = "login"
  /\ \E outcome \in NowonLoginOutcomes :
       /\ log' = Append(log, Event("login", "login", 0, 0, [throws |-> outcome.throws]))
       /\ loginSuccess' = IF NowonLoginReturn(outcome) THEN "true" ELSE "false"
       /\ pc' = mainAfterLogin(NowonLoginReturn(outcome))
  /\ UNCHANGED <<crawler, tzOffset, loggedIn, lastDay, day, fac, allResults, results,
                 cbVars, tabVars, callVars>>

\* The requests one call of crawlAvailableTimes issues, as log entries.
NowonRequests(phase, d, cate2, tl, rv) ==
  IF tl.throws THEN <<Event("getTimeList", phase, d, cate2, tl)>>
  ELSE <<Event("getTimeList", phase, d, cate2, tl),
         Event("checkReserve", phase, d, cate2, rv)>>

\* const testResults = await crawler.crawlAvailableTimes("2025-10-15", 15):
\* a throw of getTimeList rejects main; otherwise crawlMonth starts (lines
\* 206-221).
NowonTestCall ==
  /\ crawler = "nowon" /\ pc = "test"
  /\ \E tl \in CrawlTimeListOutcomes, rv \in CrawlReserveOutcomes :
       /\ tl.throws => rv = Throws
       /\ log' = log \o NowonRequests("test", TestDay, 15, tl, rv)
       /\ pc' = IF tl.throws THEN "crashed" ELSE "month"
  /\ day' = 1
  /\ fac' = 1
  /\ allResults' = [bul |-> <<>>, ma |-> <<>>, cho |-> <<>>]
  /\ UNCHANGED <<crawler, tzOffset, loginSuccess, loggedIn, lastDay, results,
                 cbVars, tabVars, callVars>>

\* pickDate of the day-th pass of the while loop of crawlMonth
pickDateOf(d) ==
  toISODate([year |-> JobYear, month |-> JobMonth, day |-> d], tzOffset)

\* Lines 227-237: the try/catch lies inside the for loop, so that after an
\* error of crawlAvailableTimes crawlMonth goes on with the next facility.
\* Mutant: the error leaves the loops and rejects crawlMonth and main.
onPairError_rethrown == "crashed"

onPairError == "month"

\* One pass of the for loop of crawlMonth (lines 226-238) for the facility
\* fac on the date day, and the step to the next facility or date.
NowonCrawlPair ==
  /\ crawler = "nowon" /\ pc = "month" /\ day <= lastDay
  /\ LET f == facilities[fac]
         pickDate == pickDateOf(day)
     IN  \E tl \in CrawlTimeListOutcomes, rv \in CrawlReserveOutcomes :
           /\ tl.throws => rv = Throws
           /\ pc' = IF tl.throws THEN onPairError ELSE pc
           /\ IF tl.throws
              THEN \* catch: console.log only
                   /\ allResults' = allResults
                   /\ log' = log \o NowonRequests("month", day, f.cate2Val, tl, rv)
              ELSE LET rows == crawlAvailableTimes(pickDate, f.cate2Val, tl.data,
                                                   checkReserve(rv))
                   IN  /\ allResults' = [allResults EXCEPT ![f.name] = @ \o rows]
                       /\ log' = log \o NowonRequests("month", day, f.cate2Val, tl, rv)
                                     \o (IF DelayMs > 0
                                         THEN <<Slept("month", day, f.cate2Val)>>
                                         ELSE <<>>)
  /\ IF fac < Len(facilities)
     THEN fac' = fac + 1 /\ day' = day
     ELSE fac' = 1 /\ day' = day + 1
  /\ UNCHANGED <<crawler, tzOffset, loginSuccess, loggedIn, lastDay, results,
                 cbVars, tabVars, callVars>>

\* The while loop ends: return allResults; main saves the results.
NowonReturn ==
  /\ crawler = "nowon" /\ pc = "month" /\ day > lastDay
  /\ pc' = "done"
  /\ UNCHANGED <<crawler, tzOffset, loginSuccess, loggedIn, lastDay, day, fac,
                 allResults, results, log, cbVars, tabVars, callVars>>

(***************************************************************************)
(* TennisCourtCrawler: main                                                *)
(***************************************************************************)
\* The requests login issues when its failAt-th request throws (0: none).
DobongLoginRequests(failAt) ==
  LET ops == <<"loginPage.get", "loginPage.post", "index.get">>
      n   == IF failAt = 0 THEN 3 ELSE failAt
  IN  [k \in 1..n |-> Event(ops[k], "login", 0, 0, [throws |-> (k = failAt)])]

\* const loginSuccess = await crawler.login(username, password); if (!...) return
DobongLogin ==
  /\ crawler = "dobong" /\ pc = "login"
  /\ \E failAt \in 0..3 :
       /\ log' = log \o DobongLoginRequests(failAt)
       /\ loggedIn' = (failAt = 0)
       /\ loginSuccess' = IF failAt = 0 THEN "true" ELSE "false"
       /\ pc' = mainAfterLogin(failAt = 0)
  /\ UNCHANGED <<crawler, tzOffset, lastDay, day, fac, allResults, results,
                 cbVars, tabVars, callVars>>

\* The requests one call of checkAvailability issues, as log entries.
DobongRequests(phase, d, get, post) ==
  IF get.throws THEN <<Event("index.get", phase, d, 0, get)>>
  ELSE <<Event("index.get", phase, d, 0, get), Event("ajax.post", phase, d, 0, post)>>

\* const result = await crawler.checkAvailability("20251015"), then the
\* start of crawlMonth (lines 620-622).
DobongTestCall ==
  /\ crawler = "dobong" /\ pc = "test"
  /\ \E get \in CrawlGetOutcomes, post \in CrawlPostOutcomes :
       /\ get.throws => post = Throws
       /\ log' = log \o DobongRequests("test", TestDay, get, post)
  /\ pc' = "month"
  /\ day' = 1
  /\ results' = <<>>
  /\ UNCHANGED <<crawler, tzOffset, loginSuccess, loggedIn, lastDay, fac, allResults,
                 cbVars, tabVars, callVars>>

\* One pass of the for loop of crawlMonth (lines 624-629), i = day - 1.
DobongCrawlDate ==
  /\ crawler = "dobong" /\ pc = "month" /\ day <= lastDay
  /\ LET dates == getMonthDates(JobYear, JobMonth, lastDay)
     IN  \E get \in CrawlGetOutcomes, post \in CrawlPostOutcomes :
           /\ get.throws => post = Throws
           /\ results' = Append(results, checkAvailability(dates[day], get, post))
           /\ log' = log \o DobongRequests("month", day, get, post)
                         \o (IF day - 1 < Len(dates) - 1
                             THEN <<Slept("month", day, 0)>> ELSE <<>>)
  /\ day' = day + 1
  /\ UNCHANGED <<crawler, tzOffset, pc, loginSuccess, loggedIn, lastDay, fac,
                 allResults, cbVars, tabVars, callVars>>

\* The for loop ends: return results; main writes results.json.
DobongReturn ==
  /\ crawler = "dobong" /\ pc = "month" /\ day > lastDay
  /\ pc' = "done"
  /\ UNCHANGED <<crawler, tzOffset, loginSuccess, loggedIn, lastDay, day, fac,
                 allResults, results, log, cbVars, tabVars, callVars>>

NextCrawl ==
  \/ NowonLogin
  \/ NowonTestCall
  \/ NowonCrawlPair
  \/ NowonReturn
  \/ DobongLogin
  \/ DobongTestCall
  \/ DobongCrawlDate
  \/ DobongReturn

SpecCrawl == InitCrawl /\ [][NextCrawl]_vars

(***************************************************************************)
(* The debug variant of TennisCourtCrawler.parseTimeSlots (src/debug.ts).  *)
(* It reads the time of a checkbox from the text of the li.chk_t element   *)
(* of the enclosing <ul>; a checkbox is [chk_t, disabled] with chk_t that  *)
(* trimmed text, <<>> when there is no such element.                       *)
(***************************************************************************)
\* The position after the (\d{1,2}):(\d{2}) that starts at i, 0 when none
TimeEndAt(v, i) ==
  IF TwoDigitHourAt(v, i) THEN i + 5
  ELSE IF OneDigitHourAt(v, i) THEN i + 4
  ELSE 0

\* \s*: the first position from i on that holds no blank
RECURSIVE SkipBlanks(_, _)
SkipBlanks(v, i) ==
  IF i <= Len(v) /\ v[i] = " " THEN SkipBlanks(v, i + 1) ELSE i

\* /(\d{1,2}):(\d{2})\s*~\s*(\d{1,2}):(\d{2})/ matches from position i on
RangeAt(v, i) ==
  /\ TimeEndAt(v, i) # 0
  /\ LET tilde == SkipBlanks(v, TimeEndAt(v, i))
     IN  /\ tilde <= Len(v)
         /\ v[tilde] = "~"
         /\ TimeEndAt(v, SkipBlanks(v, tilde + 1)) # 0

\* timeText.match(...): <<>> for null, otherwise the first two groups of the
\* leftmost match
debug_timeMatch(v) ==
  LET at == {i \in 1..Len(v) : RangeAt(v, i)}
  IN  IF at = {} THEN <<>>
      ELSE LET i == CHOOSE j \in at : \A k \in at : j <= k
           IN  IF TwoDigitHourAt(v, i)
               THEN <<[hour |-> SubSeq(v, i, i + 1), minute |-> SubSeq(v, i + 3, i + 4)]>>
               ELSE <<[hour |-> SubSeq(v, i, i), minute |-> SubSeq(v, i + 2, i + 3)]>>

\* debug.ts lines 247-289: the slots one checkbox contributes
debug_SlotsOfCheckbox(checkbox) ==
  LET m == debug_timeMatch(checkbox.chk_t)
  IN  IF m = <<>> THEN <<>>
      ELSE LET startHour   == ParseInt(m[1].hour)[1]
               startMinute == m[1].minute
               available   == ~checkbox.disabled
           IN  <<[time      |-> PadStart(NumberToString(startHour), 2, "0")
                                  \o <<":">> \o startMinute,
                  available |-> available,
                  price     |-> "",
                  status    |-> IF available THEN "available" ELSE "disabled"]>>

RECURSIVE debug_parseTimeSlots(_)
debug_parseTimeSlots(htmlContent) ==
  IF htmlContent = <<>> THEN <<>>
  ELSE debug_SlotsOfCheckbox(Head(htmlContent))
       \o debug_parseTimeSlots(Tail(htmlContent))

(***************************************************************************)
(* SpecMarkup: one call of parseTimeSlots (either variant) on a list of    *)
(* checkboxes, or of checkAvailability on the outcomes of its two          *)
(* requests, for every input of the sets below.                            *)
(***************************************************************************)
\* value attributes: absent, 06:00, 07:00, 06:30, 07:30, 09:00, and a text
\* without a time
CheckboxValues ==
  {<<>>,
   <<"0", "6", ":", "0", "0">>, <<"0", "7", ":", "0", "0">>,
   <<"0", "6", ":", "3", "0">>, <<"0", "7", ":", "3", "0">>,
   <<"0", "9", ":", "0", "0">>,
   <<"o", "n">>}

Checkboxes == [value : CheckboxValues, disabled : BOOLEAN]

\* li.chk_t texts: none, "06:00 ~ 07:00", "09:00~10:00", and a lone "06:00"
ChkTexts ==
  {<<>>,
   <<"0", "6", ":", "0", "0", " ", "~", " ", "0", "7", ":", "0", "0">>,
   <<"0", "9", ":", "0", "0", "~", "1", "0", ":", "0", "0">>,
   <<"0", "6", ":", "0", "0">>}

DebugCheckboxes == [chk_t : ChkTexts, disabled : BOOLEAN]

\* Court blocks of play_name: null; an object with every field and the
\* markup of one of three checkbox lists; an object without any of the
\* fields (also what a number or a text in place of the object reads as).
NullBlock == [isNull |-> TRUE]

BlockMarkups ==
  {<<[value |-> <<"0", "9", ":", "0", "0">>, disabled |-> FALSE]>>,
   <<[value |-> <<"0", "6", ":", "0", "0">>, disabled |-> FALSE],
     [value |-> <<"0", "9", ":", "0", "0">>, disabled |-> TRUE]>>}

CourtBlocks ==
  {NullBlock}
  \cup {[play_name |-> <<"A">>, play_code |-> <<"1">>, place_code |-> <<"2">>,
         event_code |-> <<"3">>, htmlx |-> h] : h \in BlockMarkups}
  \cup {[play_name |-> <<>>, play_code |-> <<>>, place_code |-> <<>>,
         event_code |-> <<>>, htmlx |-> <<>>]}

\* Outcomes of the POST of checkAvailability: a transport error, a text
\* that is no JSON, a null, an object without play_name, and objects whose
\* play_name is a list of court blocks, given as an array or as a JSON text.
PostOutcomes ==
  {Throws, Returns([valid |-> FALSE]),
   Returns([valid |-> TRUE, value |-> [isNull |-> TRUE]]),
   Returns([valid |-> TRUE, value |-> [none |-> TRUE]]),
   Returns([valid |-> TRUE, value |-> [play_name |-> [form |-> "other"]]])}
  \cup {Returns([valid |-> TRUE,
                 value |-> [play_name |-> [form |-> "array", blocks |-> bs]]]) :
          bs \in ListsUpTo(CourtBlocks, MaxBlocks)}
  \cup {Returns([valid |-> TRUE,
                 value |-> [play_name |-> [form |-> "string", parses |-> ok,
                                           blocks |-> <<>>]]]) :
          ok \in BOOLEAN}

InitMarkup ==
  /\ CBIdle
  /\ TabIdle
  /\ CrawlIdle
  /\ callIn \in
       [method : {"parseTimeSlots"},
        htmlContent : ListsUpTo(Checkboxes, MaxBoxes)]
       \cup [method : {"debug.parseTimeSlots"},
             htmlContent : ListsUpTo(DebugCheckboxes, MaxBoxes)]
       \cup [method : {"checkAvailability"},
             dateStr : {<<"2", "0", "2", "5", "1", "0", "1", "5">>},
             get : {Throws, Returns(<<>>)},
             post : PostOutcomes]
  /\ callOut = <<>>
  /\ callPc = "call"

\* const slots = this.parseTimeSlots(htmlContent)  (all-in-one.ts)
CallParseTimeSlots ==
  /\ callPc = "call" /\ callIn.method = "parseTimeSlots"
  /\ callOut' = parseTimeSlots(callIn.htmlContent)
  /\ callPc' = "returned"
  /\ UNCHANGED <<callIn, cbVars, tabVars, crawlVars>>

\* const slots = this.parseTimeSlots(htmlContent)  (debug.ts)
CallDebugParseTimeSlots ==
  /\ callPc = "call" /\ callIn.method = "debug.parseTimeSlots"
  /\ callOut' = debug_parseTimeSlots(callIn.htmlContent)
  /\ callPc' = "returned"
  /\ UNCHANGED <<callIn, cbVars, tabVars, crawlVars>>

\* const result = await crawler.checkAvailability(dateStr)
CallCheckAvailability ==
  /\ callPc = "call" /\ callIn.method = "checkAvailability"
  /\ callOut' = checkAvailability(callIn.dateStr, callIn.get, callIn.post)
  /\ callPc' = "returned"
  /\ UNCHANGED <<callIn, cbVars, tabVars, crawlVars>>

NextMarkup ==
  \/ CallParseTimeSlots
  \/ CallDebugParseTimeSlots
  \/ CallCheckAvailability

SpecMarkup == InitMarkup /\ [][NextMarkup]_vars

(***************************************************************************)
(* SpecMonth: the dates one call of crawlMonth(year, month) queries, for   *)
(* either crawler, every month of the years below and every host time zone *)
(* of HostOffsets.                                                         *)
(***************************************************************************)
\* NowonCrawler.crawlMonth, lines 206-241: the pickDate of every pass of the
\* while loop. currentDate is local midnight of day d of the month, from
\* the first day up to lastDay = new Date(year, month, 0); setDate moves it
\* to the next local midnight.
RECURSIVE pickDatesFrom(_, _, _, _)
pickDatesFrom(year, month, d, offset) ==
  IF d > DaysInMonth(year, month) THEN <<>>
  ELSE <<toISODate([year |-> year, month |-> month, day |-> d], offset)>>
       \o pickDatesFrom(year, month, d + 1, offset)

\* a common year, a leap year, and a century year that is no leap year
Years == {2024, 2025, 2100}

Months == 1..12

\* Date.getTimezoneOffset() of the host: UTC+9, UTC, UTC-5
HostOffsets == TimezoneOffsets \cup {300}

InitMonth ==
  /\ CBIdle
  /\ TabIdle
  /\ CrawlIdle
  /\ callIn \in [method : {"NowonCrawler.crawlMonth", "TennisCourtCrawler.crawlMonth"},
                 year : Years, month : Months, offset : HostOffsets]
  /\ callOut = <<>>
  /\ callPc = "call"

\* NowonCrawler.crawlMonth(year, month): the dates handed to
\* crawlAvailableTimes, in order (each one once per facility)
CallNowonCrawlMonth ==
  /\ callPc = "call" /\ callIn.method = "NowonCrawler.crawlMonth"
  /\ callOut' = pickDatesFrom(callIn.year, callIn.month, 1, callIn.offset)
  /\ callPc' = "returned"
  /\ UNCHANGED <<callIn, cbVars, tabVars, crawlVars>>

\* TennisCourtCrawler.crawlMonth(year, month): the dates handed to
\* checkAvailability, in order
CallDobongCrawlMonth ==
  /\ callPc = "call" /\ callIn.method = "TennisCourtCrawler.crawlMonth"
  /\ callOut' = getMonthDates(callIn.year, callIn.month,
                              DaysInMonth(callIn.year, callIn.month))
  /\ callPc' = "returned"
  /\ UNCHANGED <<callIn, cbVars, tabVars, crawlVars>>

NextMonth ==
  \/ CallNowonCrawlMonth
  \/ CallDobongCrawlMonth

SpecMonth == InitMonth /\ [][NextMonth]_vars

\* The condition of claims C2-C4: the clock reading has passed the recovery
\* window of the last failure.
TimedOut ==
  /\ last_failure_time # <<>>
  /\ now - last_failure_time[1] > recovery_timeout * 1000

(***************************************************************************)
(* C1: starting CLOSED (failure_threshold >= 1), right after exactly       *)
(* failure_threshold consecutive recordFailure calls the state is OPEN;    *)
(* after any smaller number of consecutive failures the state is still     *)
(* CLOSED and isAvailable returns true.                                    *)
(***************************************************************************)
C1_ThresholdOpens ==
  /\ (lastOp = "recordFailure" /\ streak = failure_threshold => state = "OPEN")
  /\ (streak < failure_threshold =>
        /\ state = "CLOSED"
        /\ isAvailableReturn = "true"
        /\ (lastOp = "isAvailable" => lastRet = "true"))

C1_Witness ==
  /\ failure_threshold = 2
  /\ lastOp = "recordFailure"
  /\ streak = failure_threshold
  /\ state = "OPEN"

(***************************************************************************)
(* C2: in OPEN, an isAvailable check made while                            *)
(* now - last_failure_at <= recovery_timeout returns false and leaves the  *)
(* state OPEN; the state becomes HALF_OPEN only by an isAvailable check    *)
(* made after now - last_failure_at > recovery_timeout (never by the       *)
(* passage of time), and that check returns true.                          *)
(***************************************************************************)
C2_OpenUntilChecked ==
  [][ /\ (state = "OPEN" /\ lastOp' = "isAvailable" /\ ~TimedOut =>
            lastRet' = "false" /\ state' = "OPEN")
      /\ (state = "OPEN" /\ lastOp' = "isAvailable" /\ TimedOut =>
            lastRet' = "true" /\ state' = "HALF_OPEN")
      /\ (state = "OPEN" /\ lastOp' = "tick" => state' = "OPEN")
      /\ (state # "HALF_OPEN" /\ state' = "HALF_OPEN" =>
            /\ state = "OPEN"
            /\ TimedOut
            /\ lastOp' = "isAvailable"
            /\ lastRet' = "true")
    ]_vars

C2_Witness ==
  /\ state = "HALF_OPEN"
  /\ lastOp = "isAvailable"
  /\ lastRet = "true"
  /\ now - last_failure_time[1] = recovery_timeout * 1000 + TickMs

(***************************************************************************)
(* C3: HALF_OPEN allows exactly one call through: once one isAvailable     *)
(* check has returned true after the recovery timeout, every further       *)
(* isAvailable check returns false until recordSuccess or recordFailure.   *)
(***************************************************************************)
C3_OneProbeOnly == probes <= 1

(***************************************************************************)
(* C4: from HALF_OPEN the next recorded outcome decides the state:         *)
(* recordSuccess gives CLOSED with failure_count = 0, recordFailure gives  *)
(* OPEN with last_failure_time set to the time of that failure.            *)
(***************************************************************************)
C4_HalfOpenResolves ==
  [][ /\ (state = "HALF_OPEN" /\ lastOp' = "recordSuccess" =>
            state' = "CLOSED" /\ failure_count' = 0)
      /\ (state = "HALF_OPEN" /\ lastOp' = "recordFailure" =>
            state' = "OPEN" /\ last_failure_time' = <<now>>)
    ]_vars

C4_Witness ==
  /\ prevState = "HALF_OPEN"
  /\ lastOp = "recordFailure"
  /\ state = "OPEN"
  /\ last_failure_time = <<now>>
  /\ failure_count > failure_threshold

(***************************************************************************)
(* The run as the claims C5-C9 look at it.                                 *)
(***************************************************************************)
InMonth(e) == e.phase = "month"

\* The entries of log made by crawlMonth
MonthLog == SelectSeq(log, InMonth)

\* The request that opens the query of a (date, facility) pair
FirstRequestOp == IF crawler = "nowon" THEN "getTimeList" ELSE "index.get"

IsFirstRequest(e) == e.op = FirstRequestOp

\* The pairs crawlMonth has attempted, in the order of their first request
Attempts ==
  LET first == SelectSeq(MonthLog, IsFirstRequest)
  IN  [k \in DOMAIN first |-> <<first[k].day, first[k].cate2>>]

\* The pairs of the job, in the order of the job: dates ascending, and for
\* each date the facilities 15, 16, 17 (NowonCrawler) or the one facility of
\* TennisCourtCrawler (written 0).
JobPairs ==
  IF crawler = "nowon"
  THEN [k \in 1..(3 * lastDay) |->
          <<((k - 1) \div 3) + 1, <<15, 16, 17>>[((k - 1) % 3) + 1]>>]
  ELSE [k \in 1..lastDay |-> <<k, 0>>]

IsPrefix(s, t) == Len(s) <= Len(t) /\ \A k \in DOMAIN s : s[k] = t[k]

\* The date text sent upstream for the day-th date of the job
\* The date texts of a run, tabulated: pickDateOf for every host offset and
\* day, and the dates of getMonthDates.
NowonDateTexts ==
  [x \in TimezoneOffsets \X (1..MaxDays) |->
     toISODate([year |-> JobYear, month |-> JobMonth, day |-> x[2]], x[1])] @@ <<>>

DobongDateTexts == getMonthDates(JobYear, JobMonth, MaxDays) @@ <<>>

DateTextOf(d) ==
  IF crawler = "nowon" THEN NowonDateTexts[<<tzOffset, d>>]
  ELSE DobongDateTexts[d]

ResultNameOf(cate2) ==
  IF cate2 = 15 THEN "bul" ELSE IF cate2 = 16 THEN "ma" ELSE "cho"

\* The returned results hold an entry for the pair <<d, cate2>>.
HasEntry(d, cate2) ==
  IF crawler = "nowon"
  THEN \E k \in DOMAIN allResults[ResultNameOf(cate2)] :
         allResults[ResultNameOf(cate2)][k].date = DateTextOf(d)
  ELSE \E k \in DOMAIN results : results[k].date = DateTextOf(d)

\* A request of the pair <<d, cate2>> raised a transport error.
TransportFailed(d, cate2) ==
  \E k \in DOMAIN MonthLog :
    /\ MonthLog[k].day = d /\ MonthLog[k].cate2 = cate2
    /\ MonthLog[k].op \in {"getTimeList", "index.get", "ajax.post"}
    /\ MonthLog[k].resp.throws

(***************************************************************************)
(* C5: during a crawl the orchestrator consults the circuit breaker before *)
(* every upstream availability call (and a call the breaker denies never   *)
(* reaches the transport): every query crawlMonth sends is preceded by an  *)
(* isAvailable check of the crawler's breaker.                             *)
(***************************************************************************)
C5_BreakerConsulted ==
  crawler = "dobong" =>
    \A k \in DOMAIN MonthLog :
      MonthLog[k].op = "index.get" =>
        /\ k > 1
        /\ MonthLog[k - 1].op = "circuitBreaker.isAvailable"

(***************************************************************************)
(* C6: a crawlMonth run ends with a result set that covers every requested *)
(* (date, facility) pair; a failed pair is there with an error marker, not *)
(* silently left out.                                                      *)
(***************************************************************************)
C6_EveryPairCovered ==
  pc = "done" =>
    \A k \in DOMAIN JobPairs :
      /\ HasEntry(JobPairs[k][1], JobPairs[k][2])
      /\ TransportFailed(JobPairs[k][1], JobPairs[k][2]) =>
           IF crawler = "nowon"
           THEN \E n \in DOMAIN allResults[ResultNameOf(JobPairs[k][2])] :
                  /\ allResults[ResultNameOf(JobPairs[k][2])][n].date
                       = DateTextOf(JobPairs[k][1])
                  /\ allResults[ResultNameOf(JobPairs[k][2])][n].status = "error"
           ELSE \E n \in DOMAIN results :
                  /\ results[n].date = DateTextOf(JobPairs[k][1])
                  /\ results[n].status = "error"

(***************************************************************************)
(* C7: orchestrator isolation. A transport error on one (date, facility)   *)
(* pair does not stop crawlMonth: the pairs are attempted in the order of  *)
(* the job whatever fails, the run ends with all of them attempted, and    *)
(* the result of every pair that succeeded is in the returned results.     *)
(***************************************************************************)
\* The rows of a list that carry the date text t
RowsOfDate(rows, t) ==
  LET HasDate(row) == row.date = t
  IN  SelectSeq(rows, HasDate)

\* The rows crawlAvailableTimes returns, tabulated over the dates, the
\* facilities and the response pairs of a run.
C7_RunDates ==
  {toISODate([year |-> JobYear, month |-> JobMonth, day |-> d], o) :
     d \in 1..MaxDays, o \in TimezoneOffsets}

C7_ExpectedRows ==
  [x \in C7_RunDates \X Cate2s \X {tl \in CrawlTimeListOutcomes : ~tl.throws}
          \X CrawlReserveOutcomes |->
     LET rows == crawlAvailableTimes(x[1], x[2], x[3].data, checkReserve(x[4]))
     IN  [n \in 1..Len(rows) |-> rows[n]] @@ <<>>]
  @@ <<>>

\* The result of the pair whose first request is ml[k], ml being MonthLog,
\* is in the returned results as the upstream responses of the pair
\* determine it.
SuccessPresent(ml, k) ==
  \A e \in {ml[k]} :
    ~e.resp.throws =>
      \A f \in {ml[k + 1]}, date \in {DateTextOf(e.day)} :
        IF crawler = "nowon"
        THEN RowsOfDate(allResults[ResultNameOf(e.cate2)], date)
               = C7_ExpectedRows[<<date, e.cate2, e.resp, f.resp>>]
        ELSE ~f.resp.throws =>
               \A expected \in {checkAvailability(date, e.resp, f.resp)} :
                 expected.status = "success" =>
                   \E n \in DOMAIN results : results[n] = expected

C7_Isolation ==
  /\ pc \in {"month", "done", "crashed"} =>
       \A attempts \in {Attempts}, pairs \in {JobPairs} :
         IsPrefix(attempts, pairs) /\ (pc = "done" => attempts = pairs)
  /\ pc = "crashed" => MonthLog = <<>>
  /\ pc = "done" =>
       \A ml \in {MonthLog} :
         \A k \in DOMAIN ml : IsFirstRequest(ml[k]) => SuccessPresent(ml, k)

C7_Witness ==
  /\ pc = "done"
  /\ lastDay = 2
  /\ LET ml == MonthLog
     IN  /\ ml[1].resp.throws
         /\ \E k \in DOMAIN ml :
              /\ k > 1 /\ IsFirstRequest(ml[k]) /\ ~ml[k].resp.throws
              /\ HasEntry(ml[k].day, ml[k].cate2)

(***************************************************************************)
(* C8: rate limiting. After each attempted pair, failed or not, crawlMonth *)
(* sleeps for the inter-request delay before the request of the next pair, *)
(* and it does not sleep after the last pair of the job.                   *)
(***************************************************************************)
C8_SleepBetweenPairs ==
  /\ \A k \in DOMAIN MonthLog :
       (k > 1 /\ IsFirstRequest(MonthLog[k])) => MonthLog[k - 1].op = "sleep"
  /\ pc = "done" => MonthLog[Len(MonthLog)].op # "sleep"

(***************************************************************************)
(* C9: authentication gates the run. No availability request (getTimeList, *)
(* checkReserve, checkAvailability) is issued before login has returned    *)
(* true, and when login returns false the run ends without processing any  *)
(* date.                                                                   *)
(***************************************************************************)
C9_LoginGates ==
  /\ \A k \in DOMAIN log :
       log[k].phase \in {"test", "month"} =>
         /\ loginSuccess = "true"
         /\ k > 1
         /\ log[1].phase = "login"
  /\ pc \in {"test", "month", "done", "crashed"} => loginSuccess = "true"
  /\ loginSuccess = "false" =>
       /\ pc = "exit"
       /\ \A k \in DOMAIN log : log[k].phase = "login"
       /\ results = <<>>
       /\ allResults = [bul |-> <<>>, ma |-> <<>>, cho |-> <<>>]

\* login returned false, after a response and not a transport error, and
\* main returned.
C9_Witness ==
  /\ pc = "exit"
  /\ loginSuccess = "false"
  /\ log # <<>>
  /\ ~log[Len(log)].resp.throws

(***************************************************************************)
(* C10: tabular strategy. Every generated row is marked not bookable       *)
(* exactly when the key "{court_sequence_id},{start}" of the row is in the *)
(* set built from the reserved list (a bare-integer begin time zero-padded *)
(* to two digits and suffixed with :00, any other begin time as given),    *)
(* and bookable otherwise.                                                 *)
(***************************************************************************)
\* The roster of section 4.1: sequence ids 18-20 (facility 15, no prefix),
\* 30-33 (facility 17, prefix 2), 21-29 (otherwise, prefix 1), labels
\* numbered from 1.
C10_SequenceId(cate2, label) ==
  LET base == IF cate2 = 15 THEN 17 ELSE IF cate2 = 17 THEN 29 ELSE 20
      num  == IF cate2 = 15 THEN label[1] ELSE label[2]
  IN  NumberToString(base + DigitValue(num))

\* The begin time of a reserved entry as the claim normalises it.
C10_BeginTime(t) ==
  IF t # <<>> /\ \A i \in DOMAIN t : t[i] \in {"0", "1", "2", "3", "4", "5", "6", "7", "8", "9"}
  THEN LET v == DigitsToNumber(t)
       IN  (IF v < 10 THEN <<"0">> ELSE <<>>) \o NumberToString(v) \o <<":", "0", "0">>
  ELSE IF t = <<>> THEN <<"0", "0", ":", "0", "0">> ELSE t

C10_IsReserved(list, seqId, start) ==
  \E n \in DOMAIN list :
    /\ TemplateString(list[n].cseq) = seqId
    /\ C10_BeginTime(list[n].useTimeBegin) = start

C11_SlotUnique ==
  tabPc = "returned" =>
    \A i, j \in DOMAIN tabRows :
      ( /\ tabRows[i].court = tabRows[j].court
        /\ tabRows[i].date = tabRows[j].date
        /\ tabRows[i].startTime = tabRows[j].startTime ) => i = j

\* The same for the embedded-markup normalizer: the slots parseTimeSlots
\* returns for checkboxes whose values are pairwise distinct times carry
\* pairwise distinct times.
C11_MarkupSlotUnique ==
  ( /\ callPc = "returned"
    /\ callIn.method = "parseTimeSlots"
    /\ \A i, j \in DOMAIN callIn.htmlContent :
         /\ timeMatch(callIn.htmlContent[i].value) # <<>>
         /\ callIn.htmlContent[i].value = callIn.htmlContent[j].value => i = j )
  => \A i, j \in DOMAIN callOut : callOut[i].time = callOut[j].time => i = j

(***************************************************************************)
(* C12: embedded-markup strategy. For any list of slot controls that       *)
(* contains a control with time 06:00, no slot with time 06:00 appears in  *)
(* the slot list parseTimeSlots produces (either variant of the method).   *)
(***************************************************************************)
C12_SixOClock == <<"0", "6", ":", "0", "0">>

\* The time a control carries: the leading time of its value attribute
\* (all-in-one.ts) or of its li.chk_t text (debug.ts)
C12_TimeOfControl(c) ==
  IF "value" \in DOMAIN c THEN c.value ELSE SubSeq(c.chk_t, 1, Min(5, Len(c.chk_t)))

C12_NoSixOClockSlot ==
  ( /\ callPc = "returned"
    /\ callIn.method \in {"parseTimeSlots", "debug.parseTimeSlots"}
    /\ \E i \in DOMAIN callIn.htmlContent :
         C12_TimeOfControl(callIn.htmlContent[i]) = C12_SixOClock )
  => \A k \in DOMAIN callOut : callOut[k].time # C12_SixOClock

\* What all-in-one.ts does do: a control whose value is 06:00 contributes
\* no slot, i.e. the output is that of the list without those controls.
C12_PlaceholderSkipped ==
  (callPc = "returned" /\ callIn.method = "parseTimeSlots")
  => LET NotSix(c) == c.value # C12_SixOClock
     IN  callOut = parseTimeSlots(SelectSeq(callIn.htmlContent, NotSix))

(***************************************************************************)
(* C13: embedded-markup strategy. When a court block of a response is      *)
(* malformed (null, no object, sub-fields missing or unusable) the call    *)
(* still returns a success result with one entry per block: an empty slot  *)
(* list for the malformed block, and the parsed slots of every other       *)
(* block.                                                                  *)
(***************************************************************************)
\* The call received a JSON body whose play_name is a list of court blocks
C13_BlocksReceived ==
  /\ callPc = "returned"
  /\ callIn.method = "checkAvailability"
  /\ ~callIn.get.throws
  /\ ~callIn.post.throws
  /\ callIn.post.data.valid
  /\ "play_name" \in DOMAIN callIn.post.data.value
  /\ callIn.post.data.value.play_name.form = "array"

C13_Malformed(block) == "isNull" \in DOMAIN block \/ block.htmlx = <<>>

C13_BlockIsolation ==
  C13_BlocksReceived =>
    LET blocks == callIn.post.data.value.play_name.blocks
    IN  /\ callOut.status = "success"
        /\ Len(callOut.courts) = Len(blocks)
        /\ \A k \in DOMAIN blocks :
             callOut.courts[k].time_slots
               = IF C13_Malformed(blocks[k]) THEN <<>>
                 ELSE parseTimeSlots(blocks[k].htmlx)

\* What does hold: the blocks are isolated as long as none of them is null.
C13_NonNullBlockIsolation ==
  ( /\ C13_BlocksReceived
    /\ \A k \in DOMAIN callIn.post.data.value.play_name.blocks :
         "isNull" \notin DOMAIN callIn.post.data.value.play_name.blocks[k] )
  => LET blocks == callIn.post.data.value.play_name.blocks
     IN  /\ callOut.status = "success"
         /\ Len(callOut.courts) = Len(blocks)
         /\ \A k \in DOMAIN blocks :
              callOut.courts[k].time_slots
                = IF C13_Malformed(blocks[k]) THEN <<>>
                  ELSE parseTimeSlots(blocks[k].htmlx)

(***************************************************************************)
(* C14: month-scoped job. crawlMonth(year, month) queries exactly the      *)
(* calendar days of the month, first to last inclusive, each once and in   *)
(* ascending order, and no day of a neighbouring month, for every          *)
(* year/month and every time-zone offset of the host.                      *)
(***************************************************************************)
\* The number of days of a month, from the calendar table
C14_MonthLength(y, m) ==
  LET table == <<31, 28, 31, 30, 31, 30, 31, 31, 30, 31, 30, 31>>
      leap  == IF y % 100 = 0 THEN y % 400 = 0 ELSE y % 4 = 0
  IN  IF m = 2 /\ leap THEN 29 ELSE table[m]

C14_TwoDigits(n) == <<NumberToString(n \div 10)[1], NumberToString(n % 10)[1]>>

\* Day d of the month in the date format of the crawler: YYYY-MM-DD for
\* NowonCrawler, YYYYMMDD for TennisCourtCrawler
C14_DateText(method, y, m, d) ==
  IF method = "NowonCrawler.crawlMonth"
  THEN NumberToString(y) \o <<"-">> \o C14_TwoDigits(m) \o <<"-">> \o C14_TwoDigits(d)
  ELSE NumberToString(y) \o C14_TwoDigits(m) \o C14_TwoDigits(d)

C14_DaysOfMonth ==
  [d \in 1..C14_MonthLength(callIn.year, callIn.month) |->
     C14_DateText(callIn.method, callIn.year, callIn.month, d)]

C14_IsMonthCall ==
  /\ callPc = "returned"
  /\ callIn.method \in {"NowonCrawler.crawlMonth", "TennisCourtCrawler.crawlMonth"}

C14_ExactlyTheMonth == C14_IsMonthCall => callOut = C14_DaysOfMonth

\* What does hold: TennisCourtCrawler on every host, and NowonCrawler on a
\* host that is not east of UTC.
C14_ExactlyTheMonthNotEast ==
  ( /\ C14_IsMonthCall
    /\ callIn.method = "NowonCrawler.crawlMonth" => callIn.offset >= 0 )
  => callOut = C14_DaysOfMonth

(***************************************************************************)
(* C15: CircuitBreaker state consistency (failure_threshold >= 1). After   *)
(* any sequence of isAvailable, recordSuccess and recordFailure calls      *)
(* under a non-decreasing clock: state = CLOSED implies failure_count <    *)
(* failure_threshold; state = OPEN or HALF_OPEN implies failure_count >=   *)
(* failure_threshold and last_failure_time is not null.                    *)
(***************************************************************************)
C15_StateConsistent ==
  /\ failure_threshold >= 1
  /\ state \in {"CLOSED", "OPEN", "HALF_OPEN"}
  /\ state = "CLOSED" => failure_count < failure_threshold
  /\ state \in {"OPEN", "HALF_OPEN"} =>
       /\ failure_count >= failure_threshold
       /\ last_failure_time # <<>>

\* The breaker closed again by a success of the probe, after having been
\* opened by more failures than the threshold asks for and a later clock.
C15_Witness ==
  /\ state = "CLOSED"
  /\ lastOp = "recordSuccess"
  /\ prevState = "HALF_OPEN"
  /\ failure_count = 0
  /\ last_failure_time # <<>>
  /\ now > last_failure_time[1]

(***************************************************************************)
(* C16: tabular strategy, failed reserved-list call. When getTimeList      *)
(* succeeds and checkReserve fails with a transport error,                 *)
(* crawlAvailableTimes raises no error and returns the full slot grid with *)
(* every slot marked bookable, and crawlMonth records the (date, facility) *)
(* pair as a success: its rows are in the results and the loop goes on as  *)
(* after any successful pair.                                              *)
(***************************************************************************)
\* Entry k of a log is a checkReserve request that raised a transport error
C16_ReserveFailedAt(l, k) == l[k].op = "checkReserve" /\ l[k].resp.throws

\* The number of courts of a facility (section 4.1 of the specification)
C16_CourtCount(cate2) == IF cate2 = 15 THEN 3 ELSE IF cate2 = 17 THEN 4 ELSE 9

C16_ReserveFailureAllBookable ==
  /\ \A k \in DOMAIN log :
       C16_ReserveFailedAt(log, k) =>
         \* the call returned: main went on, or crawlMonth is past the pair
         /\ pc \in {"month", "done"}
         /\ log[k - 1].op = "getTimeList" /\ ~log[k - 1].resp.throws
  /\ pc \in {"month", "done"} =>
       \A ml \in {MonthLog} :
         \A k \in DOMAIN ml :
           C16_ReserveFailedAt(ml, k) =>
             \A rows \in {RowsOfDate(allResults[ResultNameOf(ml[k].cate2)],
                                     DateTextOf(ml[k].day))} :
               /\ Len(rows) = lineCount(ml[k - 1].resp.data)
                                * C16_CourtCount(ml[k].cate2)
               /\ Len(rows) > 0
               /\ \A n \in DOMAIN rows : rows[n].status = "BOOKABLE"
               \* the success path of the try block: the inter-request sleep
               /\ k < Len(ml) /\ ml[k + 1].op = "sleep"

\* A finished run in which the reserved-list call failed for one pair and
\* answered for another, whose reserved courts are marked not bookable.
C16_Witness ==
  /\ pc = "done"
  /\ crawler = "nowon"
  /\ \E k \in DOMAIN log : log[k].phase = "month" /\ C16_ReserveFailedAt(log, k)
  /\ \E n \in DOMAIN allResults.bul : allResults.bul[n].status = "NOT_BOOKABLE"

=============================================================================
